---- MODULE Spec2Model ----
(***************************************************************************)
(* Moodioos: the scheduled-message store (services/scheduled-messages.ts), *)
(* its worker (services/scheduler.ts, here src/unnamed/part_003), the      *)
(* /schedule command (src/unnamed/part_007) and the voice-session manager  *)
(* (services/voice.ts, latest revision, lines 161-364).                    *)
(*                                                                         *)
(* Every await of the source is a step boundary: a store operation is a    *)
(* read step (readAll) followed by a write step (writeAll), and other      *)
(* tasks may run in between.                                               *)
(***************************************************************************)
EXTENDS Integers, Sequences, FiniteSets, TLC

(***************************************************************************)
(* Bounds of the model.                                                    *)
(***************************************************************************)
\* records ever scheduled
MaxMsgs == 2
\* timer intervals the clock runs through
MaxTime == 2
\* calls of markSent / markFailed made from outside the worker, beside it
MaxExtMarks == 1
\* the same, on a store no worker runs on
MaxStoreMarks == 2
\* errors the timer callback's catch logs
MaxLoopErrors == 2

\* interval timers ever set by startScheduler
MaxTimers == 2

\* transport connections ever opened
MaxConns == 3
\* successful play calls per player
MaxPlays == 2

\* calls of getGuildLanguage
MaxGets == 3

\* src/unnamed/part_003:9
CHECK_INTERVAL_MS == 60000

Callers == {"c1", "c2"}
\* the callers that run beside the worker
SchedCallers == {"c1"}
Users == {"u1"}
Contents == {"hello"}
\* error texts passed to markFailed by an outside caller
Errors == {"e1", "e2"}
\* the one used beside the worker
SchedErrors == {"e1"}
\* markFailed called without an error text
Omitted == "undefined"
\* what callers pass to the store when no worker runs
StoreUsers == {"u1", "u2"}
StoreErrors == {"e1", "e2", Omitted}
\* error texts of a failed delivery (fetch rejected, 'User not found', send rejected)
\* the message of an error a file operation rejects with
StoreFaults == {"EIO: i/o error, write"}
SendErrors == {"User not found"}
Guilds == {"g1", "g2"}
\* the guilds that also have channels a join is refused for
BadGuilds == {"g1"}
Joiners == {"j1", "j2"}
MsgIds == 1..MaxMsgs
\* one tick starts per interval, so no more can be in flight at once
TickSlots == 1..MaxTime
NoError == "null"

VARIABLES
    file,        \* the array data/scheduled-messages.json decodes to ([] when the
                 \* file is missing or does not decode to an array)
    fileKind,    \* what the file's text is: "array", "garbage" (not JSON) or
                 \* "object" (JSON, but not an array)
    nextId,      \* ids handed out so far + 1 (crypto.randomUUID: always fresh)
    calls,       \* per caller: the store operation it has in flight
    extMarks,    \* calls of markSent / markFailed made from outside the worker
    now,         \* the wall clock, ms since the start of the clock's year
    intervalRef, \* scheduler.ts: the timer handle, 0 for null
    timers,      \* the interval timers that are set, each with its next firing time
    nTimers,     \* timers setInterval has created (a handle is never handed out twice)
    ticks,       \* the async callbacks of the timer that are in flight
    queryRet,    \* what the last getAll / getPendingMessages of a caller returned,
                 \* kept until the file is next written
    loopErrors   \* errors the timer callback's own catch has logged

VARIABLES
    connections, \* the registry: per guild a session {connection, player}, or none
    conns,       \* the transport connections joinVoiceInternal has opened, each
                 \* with its guild, its status and the channel it was opened for
    joins,       \* the calls of joinVoiceChannelSafe that await entersState
    nPlayers,    \* audio players created so far
    players,     \* per player: the file it plays (<<>> when idle) and the number
                 \* of listeners registered on it
    lastJoin,    \* per guild: the handle the last successful join returned, 0 after a leave
    ret          \* what the last completed call returned

schedVars ==
    <<file, fileKind, nextId, calls, extMarks, now, intervalRef, timers, nTimers,
      ticks, queryRet, loopErrors>>

voiceVars == <<connections, conns, joins, nPlayers, players, lastJoin, ret>>

VARIABLES
    configCache, \* guild-config.ts: per guild the language of its cached config, or none
    cacheLoaded, \* guild-config.ts: whether the file has been loaded into the cache
    configFile,  \* data/guild-configs.json: whether it exists, and per guild the
                 \* language of its config in the file's array, or none
    gcalls,      \* per caller: the getGuildLanguage / setGuildLanguage it has in flight
    lastSet,     \* per guild: the language of the last setGuildLanguage that completed
    langRet      \* what the last getGuildLanguage returned, how many have returned,
                 \* and whether a setGuildLanguage for its guild ran beside it

guildVars == <<configCache, cacheLoaded, configFile, gcalls, lastSet, langRet>>

vars == <<schedVars, voiceVars, guildVars>>

(***************************************************************************)
(* Time.  An instant is a year and the milliseconds into that year.        *)
(* Date.prototype.toISOString prints years 0..9999 as four digits and any  *)
(* other year as a sign and six digits; the rest (MM-DDTHH:mm:ss.sssZ) is  *)
(* fixed-width and zero-padded, modelled as the zero-padded offset.        *)
(* Strings are sequences of UTF-16 code units.                             *)
(***************************************************************************)
ClockInstant(ms) == [year |-> 2026, ms |-> ms]

Digit(n, p) == (n \div (10 ^ p)) % 10

Pad(n, w) == [i \in 1..w |-> 48 + Digit(n, w - i)]

toISOString(inst) ==
    LET rest == <<45>> \o Pad(inst.ms, 8)
    IN  IF inst.year >= 0 /\ inst.year <= 9999
        THEN Pad(inst.year, 4) \o rest
        ELSE IF inst.year > 9999
             THEN <<43>> \o Pad(inst.year, 6) \o rest
             ELSE <<45>> \o Pad(0 - inst.year, 6) \o rest

\* JavaScript's a <= b on strings: by code unit, a proper prefix is smaller
StrLE(a, b) ==
    LET n == IF Len(a) < Len(b) THEN Len(a) ELSE Len(b)
        diff == {i \in 1..n : a[i] # b[i]}
    IN  IF diff = {}
        THEN Len(a) <= Len(b)
        ELSE LET i == CHOOSE j \in diff : \A l \in diff : j <= l
             IN  a[i] < b[i]

\* the instant an ISO string written by toISOString denotes (Date.parse)
Num(s, from, to) ==
    LET RECURSIVE Acc(_, _)
        Acc(i, v) == IF i > to THEN v ELSE Acc(i + 1, 10 * v + (s[i] - 48))
    IN  Acc(from, 0)

ParseISO(s) ==
    IF s[1] = 43 THEN [year |-> Num(s, 2, 7), ms |-> Num(s, 9, 16)]
    ELSE IF s[1] = 45 THEN [year |-> 0 - Num(s, 2, 7), ms |-> Num(s, 9, 16)]
    ELSE [year |-> Num(s, 1, 4), ms |-> Num(s, 6, 13)]

InstantLE(a, b) == a.year < b.year \/ (a.year = b.year /\ a.ms <= b.ms)

\* the datetimes passed to a store no worker runs on: T, T + 1 s, and the
\* first day of year 10000
StoreInstants ==
    {ClockInstant(0), ClockInstant(1000), [year |-> 10000, ms |-> 0]}

\* the times a caller asks getPendingMessages about
AsOfs == {ClockInstant(0), ClockInstant(1000)}

\* the datetimes a user passes to /schedule, after Date.parse: the start of
\* the clock, the end of the model's horizon, and the first day of year 10000
SendInstants ==
    {ClockInstant(0), ClockInstant(MaxTime * CHECK_INTERVAL_MS),
     [year |-> 10000, ms |-> 0]}

(***************************************************************************)
(* The store: scheduled-messages.ts                                        *)
(***************************************************************************)
\* a record stamped with the time of the call instead of the sendAt passed in
NewMessageSendNow(id, target, content, sendAt) ==
    [id |-> id, targetUserId |-> target, content |-> content,
     sendAt |-> toISOString(ClockInstant(now)),
     status |-> "pending", retries |-> 0, lastError |-> NoError]

NewMessage(id, target, content, sendAt) ==
    [id |-> id, targetUserId |-> target, content |-> content, sendAt |-> sendAt,
     status |-> "pending", retries |-> 0, lastError |-> NoError]

\* a lookup that takes the last record when the id is not found
FindIndexOrLast(items, id) ==
    LET hits == {i \in 1..Len(items) : items[i].id = id}
    IN  IF hits = {} THEN Len(items) ELSE CHOOSE i \in hits : \A j \in hits : i <= j

\* items.findIndex((i) => i.id === id); 0 for -1
FindIndex(items, id) ==
    LET hits == {i \in 1..Len(items) : items[i].id = id}
    IN  IF hits = {} THEN 0 ELSE CHOOSE i \in hits : \A j \in hits : i <= j

\* items.filter((m) => m.status === 'pending' && m.sendAt <= now)
RECURSIVE Filter(_, _)
Filter(items, nowIso) ==
    IF items = <<>> THEN <<>>
    ELSE LET m == Head(items)
             rest == Filter(Tail(items), nowIso)
         IN  IF m.status = "pending" /\ StrLE(m.sendAt, nowIso)
             THEN <<m>> \o rest
             ELSE rest

\* the due query without its test of the status
RECURSIVE FilterDue(_, _)
FilterDue(items, nowIso) ==
    IF items = <<>> THEN <<>>
    ELSE LET m == Head(items)
             rest == FilterDue(Tail(items), nowIso)
         IN  IF StrLE(m.sendAt, nowIso) THEN <<m>> \o rest ELSE rest

getPendingMessagesAnyStatus(items, nowIso) == FilterDue(items, nowIso)

getPendingMessages(items, nowIso) == Filter(items, nowIso)

\* markSent, between its readAll and its writeAll
MarkSentItems(items, idx) == [items EXCEPT ![idx].status = "sent"]

\* errorMsg ?? null
OrNull(err) == IF err = Omitted THEN NoError ELSE err

\* a markFailed that counts the first failure only
MarkFailedItemsOnce(items, idx, err) ==
    [items EXCEPT ![idx].status = "failed",
                  ![idx].retries = 1,
                  ![idx].lastError = OrNull(err)]

\* markFailed, between its readAll and its writeAll
MarkFailedItems(items, idx, err) ==
    [items EXCEPT ![idx].status = "failed",
                  ![idx].retries = @ + 1,
                  ![idx].lastError = OrNull(err)]

Ids(items) == {items[i].id : i \in 1..Len(items)}

Rec(items, id) == items[FindIndex(items, id)]

FailedIds(items) == {items[i].id : i \in {j \in 1..Len(items) : items[j].status = "failed"}}

\* readAll() whose JSON.parse is not in a try: garbage makes the call throw
readAllNoCatch ==
    [threw |-> fileKind = "garbage",
     items |-> IF fileKind = "array" THEN file ELSE <<>>]

\* readAll(): the file is created as [] when missing, read and parsed; a
\* parse error is caught and a value that is not an array is dropped, both
\* giving [].  The call does not throw (fs errors apart).
readAll ==
    [threw |-> FALSE, items |-> IF fileKind = "array" THEN file ELSE <<>>]

\* getAll()
getAll == readAll

NoQuery == [op |-> "none"]

\* a caller's call: idle, or between readAll and writeAll.  op, id and the
\* arguments say what was called, base is what readAll returned, items is
\* what writeAll will write.
Call(op, id, target, content, sendAt, err, base, items) ==
    [pc |-> "write", op |-> op, id |-> id, target |-> target,
     content |-> content, sendAt |-> sendAt, err |-> err,
     base |-> base, items |-> items]

IdleCall ==
    [pc |-> "idle", op |-> "none", id |-> 0, target |-> "", content |-> "",
     sendAt |-> <<>>, err |-> "", base |-> <<>>, items |-> <<>>]

\* one run of the timer's callback.  pc: scan (awaiting getPendingMessages),
\* send (awaiting fetch and send of pending[k]), write (awaiting the writeAll
\* of markSent / markFailed, with the items to write).  History kept for the
\* properties: outcomes (ok / fail per message delivered so far), disturbed
\* (another task wrote the file since the scan), failedAtScan (the ids that
\* were failed in the file at the scan).
IdleTick ==
    [pc |-> "idle", nowIso |-> <<>>, pending |-> <<>>, k |-> 0,
     items |-> <<>>, outcomes |-> <<>>, disturbed |-> FALSE, failedAtScan |-> {},
     thrown |-> NoError]

InFlight(t) == ticks[t].pc \in {"send", "write", "failing", "rewrite"}

\* a write of the file by anyone but tick `self` lands inside every tick that
\* is between its scan and its end
Disturb(self) ==
    [t \in TickSlots |->
        IF t # self /\ InFlight(t) THEN [ticks[t] EXCEPT !.disturbed = TRUE]
        ELSE ticks[t]]

\* identical callers: c2 is used only while c1 is busy
CallerFree(c) ==
    /\ calls[c].pc = "idle"
    /\ c = "c2" => calls["c1"].pc # "idle"

SchedInit ==
    /\ file = <<>>
    /\ fileKind = "array"
    /\ nextId = 1
    /\ calls = [c \in Callers |-> IdleCall]
    /\ extMarks = 0
    /\ now = 0
    /\ intervalRef = 0
    /\ timers = {}
    /\ nTimers = 0
    /\ ticks = [t \in TickSlots |-> IdleTick]
    /\ queryRet = NoQuery
    /\ loopErrors = 0

\* addScheduledMessage up to the end of its readAll, with the sendAt the
\* /schedule command passes: the datetime parsed and printed back with
\* toISOString.  The record is built and pushed.
ScheduleRead(c, target, content, parsed) ==
    /\ UNCHANGED <<voiceVars, guildVars, loopErrors>>
    /\ CallerFree(c)
    /\ nextId <= MaxMsgs
    /\ LET sendAt == toISOString(parsed)
           items == readAll.items
       IN  calls' = [calls EXCEPT ![c] =
               Call("schedule", nextId, target, content, sendAt, "", items,
                    Append(items, NewMessage(nextId, target, content, sendAt)))]
    /\ nextId' = nextId + 1
    /\ UNCHANGED <<file, fileKind, extMarks, now, intervalRef, timers, nTimers,
                   ticks, queryRet>>

\* markSent(id) of an outside caller, up to the end of its readAll
MarkSentRead(c, id) ==
    /\ UNCHANGED <<voiceVars, guildVars, loopErrors>>
    /\ CallerFree(c)
    /\ extMarks' = extMarks + 1
    /\ LET items == readAll.items
           idx == FindIndex(items, id)
       IN  calls' = [calls EXCEPT ![c] =
               IF idx = 0 THEN IdleCall
               ELSE Call("markSent", id, "", "", <<>>, "", items,
                         MarkSentItems(items, idx))]
    /\ UNCHANGED <<file, fileKind, nextId, now, intervalRef, timers, nTimers,
                   ticks, queryRet>>

\* markFailed(id, err) of an outside caller, up to the end of its readAll
MarkFailedRead(c, id, err) ==
    /\ UNCHANGED <<voiceVars, guildVars, loopErrors>>
    /\ CallerFree(c)
    /\ extMarks' = extMarks + 1
    /\ LET items == readAll.items
           idx == FindIndex(items, id)
       IN  calls' = [calls EXCEPT ![c] =
               IF idx = 0 THEN IdleCall
               ELSE Call("markFailed", id, "", "", <<>>, err, items,
                         MarkFailedItems(items, idx, err))]
    /\ UNCHANGED <<file, fileKind, nextId, now, intervalRef, timers, nTimers,
                   ticks, queryRet>>

\* a store whose schedule writes under a lock: the record is appended to the
\* file as it is at the write
CallWriteLocked(c) ==
    /\ UNCHANGED <<voiceVars, guildVars, loopErrors>>
    /\ calls[c].pc = "write"
    /\ file' = IF calls[c].op = "schedule"
               THEN Append(readAll.items, calls[c].items[Len(calls[c].items)])
               ELSE calls[c].items
    /\ fileKind' = "array"
    /\ calls' = [calls EXCEPT ![c] = IdleCall]
    /\ ticks' = Disturb(0)
    /\ queryRet' = NoQuery
    /\ UNCHANGED <<nextId, extMarks, now, intervalRef, timers, nTimers>>

\* writeAll(items) of an outside caller's operation
CallWrite(c) ==
    /\ UNCHANGED <<voiceVars, guildVars, loopErrors>>
    /\ calls[c].pc = "write"
    /\ file' = calls[c].items
    /\ fileKind' = "array"
    /\ calls' = [calls EXCEPT ![c] = IdleCall]
    /\ ticks' = Disturb(0)
    /\ queryRet' = NoQuery
    /\ UNCHANGED <<nextId, extMarks, now, intervalRef, timers, nTimers>>

\* getAll() of an outside caller
GetAll ==
    /\ UNCHANGED <<voiceVars, guildVars, loopErrors>>
    /\ LET r == getAll
       IN  queryRet' = [op |-> "all", threw |-> r.threw, result |-> r.items]
    /\ UNCHANGED <<file, fileKind, nextId, calls, extMarks, now, intervalRef,
                   timers, nTimers, ticks>>

\* getPendingMessages(nowIso) of an outside caller, asOf printed as the
\* worker prints its clock
PendingQuery(asOf) ==
    /\ UNCHANGED <<voiceVars, guildVars, loopErrors>>
    /\ LET r == readAll
       IN  queryRet' = [op |-> "pending", threw |-> r.threw, asOf |-> asOf,
                        result |-> getPendingMessages(r.items, toISOString(asOf))]
    /\ UNCHANGED <<file, fileKind, nextId, calls, extMarks, now, intervalRef,
                   timers, nTimers, ticks>>

\* something outside the program leaves text in the file that is not a JSON
\* array; file keeps the records the text held before
CorruptFile(kind) ==
    /\ UNCHANGED <<voiceVars, guildVars, loopErrors>>
    /\ kind \in {"garbage", "object"}
    /\ fileKind' = kind
    /\ ticks' = Disturb(0)
    /\ queryRet' = NoQuery
    /\ UNCHANGED <<file, nextId, calls, extMarks, now, intervalRef, timers,
                   nTimers>>

(***************************************************************************)
(* The worker: scheduler.ts                                                *)
(***************************************************************************)
\* setInterval hands out a new handle at every call
FreshTimer == nTimers + 1

\* a start that does not look at intervalRef
StartSchedulerNoGuard ==
    /\ UNCHANGED <<voiceVars, guildVars, loopErrors>>
    /\ nTimers < MaxTimers
    /\ intervalRef' = FreshTimer
    /\ timers' = timers \cup
           {[id |-> FreshTimer, next |-> now + CHECK_INTERVAL_MS]}
    /\ nTimers' = nTimers + 1
    /\ UNCHANGED <<file, fileKind, nextId, calls, extMarks, now, ticks,
                   queryRet>>

\* startScheduler(client)
StartScheduler ==
    /\ UNCHANGED <<voiceVars, guildVars, loopErrors>>
    /\ IF intervalRef # 0
       THEN UNCHANGED <<intervalRef, timers, nTimers>>
       ELSE /\ nTimers < MaxTimers
            /\ intervalRef' = FreshTimer
            /\ timers' = timers \cup
                   {[id |-> FreshTimer, next |-> now + CHECK_INTERVAL_MS]}
            /\ nTimers' = nTimers + 1
    /\ UNCHANGED <<file, fileKind, nextId, calls, extMarks, now, ticks,
                   queryRet>>

\* a stop that forgets the handle without clearing the timer
StopSchedulerKeepsTimer ==
    /\ UNCHANGED <<voiceVars, guildVars, loopErrors>>
    /\ intervalRef' = 0
    /\ UNCHANGED <<file, fileKind, nextId, calls, extMarks, now, timers, nTimers,
                   ticks, queryRet>>

\* stopScheduler()
StopScheduler ==
    /\ UNCHANGED <<voiceVars, guildVars, loopErrors>>
    /\ IF intervalRef = 0
       THEN UNCHANGED <<intervalRef, timers>>
       ELSE /\ timers' = {tm \in timers : tm.id # intervalRef}
            /\ intervalRef' = 0
    /\ UNCHANGED <<file, fileKind, nextId, calls, extMarks, now, nTimers, ticks,
                   queryRet>>

\* a timer that does not wait for its interval
TimerDueAtOnce(tm) == TRUE

\* the event loop runs a timer whose time has come
TimerDue(tm) == now >= tm.next

\* time passes, one timer interval at a time; a due timer fires first
Advance ==
    /\ UNCHANGED <<voiceVars, guildVars, loopErrors>>
    /\ now < MaxTime * CHECK_INTERVAL_MS
    /\ \A tm \in timers : ~TimerDue(tm)
    /\ now' = now + CHECK_INTERVAL_MS
    /\ UNCHANGED <<file, fileKind, nextId, calls, extMarks, intervalRef,
                   timers, nTimers, ticks, queryRet>>

FreeSlot == CHOOSE t \in TickSlots :
                /\ ticks[t].pc = "idle"
                /\ \A u \in TickSlots : ticks[u].pc = "idle" => t <= u

\* the timer's callback starts: nowIso is taken and getPendingMessages is called
TimerFire(tm) ==
    /\ UNCHANGED <<voiceVars, guildVars, loopErrors>>
    /\ tm \in timers
    /\ TimerDue(tm)
    /\ \E t \in TickSlots : ticks[t].pc = "idle"
    /\ timers' = (timers \ {tm}) \cup
           {[tm EXCEPT !.next = tm.next + CHECK_INTERVAL_MS]}
    /\ ticks' = [ticks EXCEPT ![FreeSlot] =
           [IdleTick EXCEPT !.pc = "scan",
                            !.nowIso = toISOString(ClockInstant(now))]]
    /\ UNCHANGED <<file, fileKind, nextId, calls, extMarks, now, intervalRef,
                   nTimers, queryRet>>

TimerFires == \E tm \in timers : TimerFire(tm)

\* getPendingMessages returns; an empty list ends the tick, otherwise
\* processMessage is called with the first message
TickScan(t) ==
    /\ UNCHANGED <<voiceVars, guildVars, loopErrors>>
    /\ ticks[t].pc = "scan"
    /\ LET items == readAll.items
           pending == getPendingMessages(items, ticks[t].nowIso)
       IN  ticks' = [ticks EXCEPT ![t] =
               IF Len(pending) = 0 THEN IdleTick
               ELSE [@ EXCEPT !.pc = "send", !.pending = pending, !.k = 1,
                              !.failedAtScan = FailedIds(items)]]
    /\ UNCHANGED <<file, fileKind, nextId, calls, extMarks, now, intervalRef,
                   timers, nTimers, queryRet>>

\* for (const msg of pending): the next message, or the end of the tick
AfterMessage(tk) ==
    IF tk.k < Len(tk.pending)
    THEN [tk EXCEPT !.pc = "send", !.k = tk.k + 1, !.items = <<>>,
                    !.thrown = NoError]
    ELSE IdleTick

\* processMessage without its try/catch: a failed delivery escapes to the
\* tick's own catch and ends the loop
TickSendDoneNoCatch(t, ok, err) ==
    /\ UNCHANGED <<voiceVars, guildVars, loopErrors>>
    /\ ticks[t].pc = "send"
    /\ LET tk == [ticks[t] EXCEPT !.outcomes = Append(@, IF ok THEN "ok" ELSE "fail")]
           items == readAll.items
           idx == FindIndex(items, tk.pending[tk.k].id)
       IN  ticks' = [ticks EXCEPT ![t] =
               IF ~ok THEN IdleTick
               ELSE IF idx = 0 THEN AfterMessage(tk)
               ELSE [tk EXCEPT !.pc = "write", !.items = MarkSentItems(items, idx)]]
    /\ UNCHANGED <<file, fileKind, nextId, calls, extMarks, now, intervalRef,
                   timers, nTimers, queryRet>>

\* processMessage whose markSent / markFailed is not awaited: the loop moves on
\* as soon as the delivery has settled
TickSendDoneNoAwait(t, ok, err) ==
    /\ UNCHANGED <<voiceVars, guildVars, loopErrors>>
    /\ ticks[t].pc = "send"
    /\ ticks' = [ticks EXCEPT ![t] =
           AfterMessage([ticks[t] EXCEPT
               !.outcomes = Append(@, IF ok THEN "ok" ELSE "fail")])]
    /\ UNCHANGED <<file, fileKind, nextId, calls, extMarks, now, intervalRef,
                   timers, nTimers, queryRet>>

\* processMessage: users.fetch and user.send settle.  On success markSent is
\* called, on any error the catch block calls markFailed with the error's
\* text; the step runs to the end of that call's readAll (nothing shared is
\* touched between the settling of send and the read of the file).  An id the
\* file does not hold makes the call return without a write.
TickSendDone(t, ok, err) ==
    /\ UNCHANGED <<voiceVars, guildVars, loopErrors>>
    /\ ticks[t].pc = "send"
    /\ LET tk == [ticks[t] EXCEPT !.outcomes = Append(@, IF ok THEN "ok" ELSE "fail")]
           items == readAll.items
           idx == FindIndex(items, tk.pending[tk.k].id)
       IN  ticks' = [ticks EXCEPT ![t] =
               IF idx = 0 THEN AfterMessage(tk)
               ELSE [tk EXCEPT !.pc = "write",
                               !.items = IF ok
                                         THEN MarkSentItems(items, idx)
                                         ELSE MarkFailedItems(items, idx, err)]]
    /\ UNCHANGED <<file, fileKind, nextId, calls, extMarks, now, intervalRef,
                   timers, nTimers, queryRet>>

\* writeAll of the worker's markSent / markFailed
TickWrite(t) ==
    /\ UNCHANGED <<voiceVars, guildVars, loopErrors>>
    /\ ticks[t].pc \in {"write", "rewrite"}
    /\ file' = ticks[t].items
    /\ fileKind' = "array"
    /\ ticks' = [Disturb(t) EXCEPT ![t] = AfterMessage(ticks[t])]
    /\ queryRet' = NoQuery
    /\ UNCHANGED <<nextId, calls, extMarks, now, intervalRef, timers, nTimers>>

(***************************************************************************)
(* The worker on a store whose file operations can reject                  *)
(***************************************************************************)
\* the callback body without its try/catch: the error leaves the callback
LoopNoCatch(tk) == [tk EXCEPT !.pc = "unhandled"]

\* the callback's catch: the error is logged and the tick ends
LoopCatch(tk) == IdleTick

\* getPendingMessages rejects (readAll's fs.readFile or ensureDataFile)
TickScanThrows(t) ==
    /\ UNCHANGED <<voiceVars, guildVars>>
    /\ ticks[t].pc = "scan"
    /\ loopErrors < MaxLoopErrors
    /\ ticks' = [ticks EXCEPT ![t] = LoopCatch(@)]
    /\ loopErrors' = loopErrors + 1
    /\ UNCHANGED <<file, fileKind, nextId, calls, extMarks, now, intervalRef,
                   timers, nTimers, queryRet>>

\* the delivery settles and the readAll of its markSent / markFailed rejects.
\* markSent is awaited inside processMessage's try: its error goes to the
\* catch block, which calls markFailed with the error's text.  An error of
\* markFailed leaves processMessage and reaches the callback's catch.
TickMarkReadThrows(t, ok, fault) ==
    /\ UNCHANGED <<voiceVars, guildVars>>
    /\ ticks[t].pc = "send"
    /\ LET tk == [ticks[t] EXCEPT !.outcomes = Append(@, IF ok THEN "ok" ELSE "fail")]
       IN  IF ok
           THEN /\ ticks' = [ticks EXCEPT ![t] =
                       [tk EXCEPT !.pc = "failing", !.thrown = fault]]
                /\ UNCHANGED loopErrors
           ELSE /\ loopErrors < MaxLoopErrors
                /\ ticks' = [ticks EXCEPT ![t] = LoopCatch(tk)]
                /\ loopErrors' = loopErrors + 1
    /\ UNCHANGED <<file, fileKind, nextId, calls, extMarks, now, intervalRef,
                   timers, nTimers, queryRet>>

\* writeAll of the worker's markSent / markFailed rejects; fs.writeFile has
\* either left the file as it was or truncated it (torn)
TickWriteThrows(t, fault, torn) ==
    /\ UNCHANGED <<voiceVars, guildVars>>
    /\ ticks[t].pc \in {"write", "rewrite"}
    /\ LET tk == ticks[t]
           others == IF torn THEN Disturb(t) ELSE ticks
       IN  IF tk.pc = "write" /\ tk.outcomes[Len(tk.outcomes)] = "ok"
           THEN /\ ticks' = [others EXCEPT ![t] =
                       [tk EXCEPT !.pc = "failing", !.thrown = fault,
                                  !.items = <<>>]]
                /\ UNCHANGED loopErrors
           ELSE /\ loopErrors < MaxLoopErrors
                /\ ticks' = [others EXCEPT ![t] = LoopCatch(tk)]
                /\ loopErrors' = loopErrors + 1
    /\ fileKind' = IF torn THEN "garbage" ELSE fileKind
    /\ queryRet' = IF torn THEN NoQuery ELSE queryRet
    /\ UNCHANGED <<file, nextId, calls, extMarks, now, intervalRef, timers,
                   nTimers>>

\* markFailed, called from the catch block after markSent rejected, reads
\* the file
TickFailingRead(t) ==
    /\ UNCHANGED <<voiceVars, guildVars, loopErrors>>
    /\ ticks[t].pc = "failing"
    /\ LET tk == ticks[t]
           items == readAll.items
           idx == FindIndex(items, tk.pending[tk.k].id)
       IN  ticks' = [ticks EXCEPT ![t] =
               IF idx = 0 THEN AfterMessage(tk)
               ELSE [tk EXCEPT !.pc = "rewrite",
                               !.items = MarkFailedItems(items, idx, tk.thrown)]]
    /\ UNCHANGED <<file, fileKind, nextId, calls, extMarks, now, intervalRef,
                   timers, nTimers, queryRet>>

\* the readAll of that markFailed rejects as well
TickFailingThrows(t) ==
    /\ UNCHANGED <<voiceVars, guildVars>>
    /\ ticks[t].pc = "failing"
    /\ loopErrors < MaxLoopErrors
    /\ ticks' = [ticks EXCEPT ![t] = LoopCatch(@)]
    /\ loopErrors' = loopErrors + 1
    /\ UNCHANGED <<file, fileKind, nextId, calls, extMarks, now, intervalRef,
                   timers, nTimers, queryRet>>

SchedNext ==
    \/ \E c \in SchedCallers, u \in Users, m \in Contents, at \in SendInstants :
           ScheduleRead(c, u, m, at)
    \/ \E c \in SchedCallers, id \in MsgIds :
           extMarks < MaxExtMarks /\ MarkSentRead(c, id)
    \/ \E c \in SchedCallers, id \in MsgIds, e \in SchedErrors :
           extMarks < MaxExtMarks /\ MarkFailedRead(c, id, e)
    \/ \E c \in SchedCallers : CallWrite(c)
    \/ StartScheduler
    \/ StopScheduler
    \/ Advance
    \/ TimerFires
    \/ \E t \in TickSlots : TickScan(t)
    \/ \E t \in TickSlots, ok \in BOOLEAN, e \in SendErrors : TickSendDone(t, ok, e)
    \/ \E t \in TickSlots : TickWrite(t)

\* the worker, one caller of /schedule and a store whose operations can fail
FaultNext ==
    \/ \E c \in SchedCallers, u \in Users, m \in Contents, at \in SendInstants :
           ScheduleRead(c, u, m, at)
    \/ \E c \in SchedCallers : CallWrite(c)
    \/ StartScheduler
    \/ StopScheduler
    \/ Advance
    \/ TimerFires
    \/ \E t \in TickSlots : TickScan(t)
    \/ \E t \in TickSlots, ok \in BOOLEAN, e \in SendErrors : TickSendDone(t, ok, e)
    \/ \E t \in TickSlots : TickWrite(t)
    \/ \E t \in TickSlots : TickScanThrows(t)
    \/ \E t \in TickSlots, ok \in BOOLEAN, f \in StoreFaults :
           TickMarkReadThrows(t, ok, f)
    \/ \E t \in TickSlots, f \in StoreFaults, torn \in BOOLEAN :
           TickWriteThrows(t, f, torn)
    \/ \E t \in TickSlots : TickFailingRead(t)
    \/ \E t \in TickSlots : TickFailingThrows(t)

\* the worker once started and never stopped, with one caller of /schedule,
\* on a store whose operations succeed
LiveNext ==
    \/ \E c \in SchedCallers, u \in Users, m \in Contents, at \in SendInstants :
           ScheduleRead(c, u, m, at)
    \/ \E c \in SchedCallers : CallWrite(c)
    \/ StartScheduler
    \/ Advance
    \/ TimerFires
    \/ \E t \in TickSlots : TickScan(t)
    \/ \E t \in TickSlots, ok \in BOOLEAN, e \in SendErrors : TickSendDone(t, ok, e)
    \/ \E t \in TickSlots : TickWrite(t)

\* time passes and the timer fires when due; a file operation that was
\* started completes; a delivery that was started returns or throws
LiveFairness ==
    /\ WF_vars(Advance)
    /\ WF_vars(TimerFires)
    /\ \A c \in SchedCallers : WF_vars(CallWrite(c))
    /\ \A t \in TickSlots :
          /\ WF_vars(TickScan(t))
          /\ WF_vars(\E ok \in BOOLEAN, e \in SendErrors : TickSendDone(t, ok, e))
          /\ WF_vars(TickWrite(t))

\* the store with its callers and no worker
StoreNext ==
    \/ \E c \in Callers, u \in StoreUsers, m \in Contents, at \in StoreInstants :
           ScheduleRead(c, u, m, at)
    \/ \E c \in Callers, id \in MsgIds :
           extMarks < MaxStoreMarks /\ MarkSentRead(c, id)
    \/ \E c \in Callers, id \in MsgIds, e \in StoreErrors :
           extMarks < MaxStoreMarks /\ MarkFailedRead(c, id, e)
    \/ \E c \in Callers : CallWrite(c)
    \/ GetAll
    \/ \E asOf \in AsOfs : PendingQuery(asOf)
    \/ \E kind \in {"garbage", "object"} : CorruptFile(kind)

(***************************************************************************)
(* The voice-session manager: voice.ts (latest revision)                   *)
(***************************************************************************)
\* a channel as joinVoiceChannelSafe looks at it
Channel(g, voice, member, connect, speak, adapter) ==
    [guild |-> g, voice |-> voice, member |-> member, connect |-> connect,
     speak |-> speak, adapter |-> adapter]

Channels ==
    {Channel(g, TRUE, TRUE, TRUE, TRUE, TRUE) : g \in Guilds}
        \cup {Channel(g, FALSE, TRUE, TRUE, TRUE, TRUE) : g \in BadGuilds}
        \cup {Channel(g, TRUE, FALSE, TRUE, TRUE, TRUE) : g \in BadGuilds}
        \cup {Channel(g, TRUE, TRUE, FALSE, TRUE, TRUE) : g \in BadGuilds}
        \cup {Channel(g, TRUE, TRUE, TRUE, FALSE, TRUE) : g \in BadGuilds}
        \cup {Channel(g, TRUE, TRUE, TRUE, TRUE, FALSE) : g \in BadGuilds}

NoSession == [connection |-> 0, player |-> 0]

\* a call of join: idle, or awaiting entersState for connection conn; prev is
\* history: the handle the guild's last successful join returned, as of the
\* call, 0 when there was none or a leave came since
IdleJoin == [pc |-> "idle", guild |-> "none", conn |-> 0, prev |-> 0]

NoRet == [op |-> "none"]

\* a join that checks the channel's type only
RejectedOnlyByType(ch) == ~ch.voice

\* the three precondition checks of joinVoiceChannelSafe
Rejected(ch) == ~ch.voice \/ ~ch.member \/ ~ch.connect \/ ~ch.speak

\* the errors join throws, by the check that throws them
PreconditionErrors ==
    {"Target channel is not a guild voice channel (voice or stage)",
     "Unable to resolve bot member in guild",
     "Missing Connect/Speak permissions for this channel"}

NoAdapterError == "Guild does not expose voiceAdapterCreator (unable to join voice)"

HandshakeError == "Failed to establish voice connection"

\* the message of the first precondition check that fails
RejectError(ch) ==
    IF ~ch.voice THEN "Target channel is not a guild voice channel (voice or stage)"
    ELSE IF ~ch.member THEN "Unable to resolve bot member in guild"
    ELSE "Missing Connect/Speak permissions for this channel"

\* connection.destroy, the member the code tests: VoiceConnection's destroy
\* method, a function, which is truthy whatever the connection's state
DestroyMember(c) == TRUE

\* existing && !existing.connection.destroy
Reusable(existing) ==
    existing # NoSession /\ ~DestroyMember(existing.connection)

\* isConnectedInGuild(guildId): !!s && !s.connection.destroy
isConnectedInGuild(g) ==
    connections[g] # NoSession /\ ~DestroyMember(connections[g].connection)

VoiceInit ==
    /\ connections = [g \in Guilds |-> NoSession]
    /\ conns = <<>>
    /\ joins = [j \in Joiners |-> IdleJoin]
    /\ nPlayers = 0
    /\ players = <<>>
    /\ lastJoin = [g \in Guilds |-> 0]
    /\ ret = NoRet

\* a join that registers the connection it opened although the handshake failed
JoinFailRegisters(j, destroyThrows, gone) ==
    /\ UNCHANGED <<schedVars, guildVars>>
    /\ joins[j].pc = "wait"
    /\ ~destroyThrows => gone
    /\ conns' = [conns EXCEPT ![joins[j].conn].status =
                     IF gone THEN "destroyed" ELSE @]
    /\ connections' = [connections EXCEPT ![joins[j].guild] =
           [connection |-> joins[j].conn, player |-> 0]]
    /\ ret' = [op |-> "join", guild |-> joins[j].guild, result |-> "error",
               error |-> HandshakeError, threw |-> destroyThrows,
               conn |-> 0, prev |-> joins[j].prev, opened |-> TRUE]
    /\ joins' = [joins EXCEPT ![j] = IdleJoin]
    /\ UNCHANGED <<nPlayers, players, lastJoin>>

\* joinVoiceChannelSafe(voiceChannel) up to its await of entersState: the
\* checks, the reuse of a registered session, the missing adapter, and
\* joinVoiceInternal, the capability that opens a transport connection and
\* returns its handle (each call is one connection opened)
JoinBegin(j, ch) ==
    /\ UNCHANGED <<schedVars, guildVars>>
    /\ joins[j].pc = "idle"
    /\ Len(conns) < MaxConns
    /\ IF Rejected(ch)
       THEN /\ ret' = [op |-> "join", guild |-> ch.guild, result |-> "error",
                       error |-> RejectError(ch),
                       conn |-> 0, prev |-> lastJoin[ch.guild], opened |-> FALSE]
            /\ UNCHANGED <<conns, joins>>
       ELSE IF Reusable(connections[ch.guild])
       THEN /\ ret' = [op |-> "join", guild |-> ch.guild, result |-> "ok",
                       conn |-> connections[ch.guild].connection,
                       prev |-> lastJoin[ch.guild], opened |-> FALSE]
            /\ UNCHANGED <<conns, joins>>
       ELSE IF ~ch.adapter
       THEN /\ ret' = [op |-> "join", guild |-> ch.guild, result |-> "error",
                       error |-> NoAdapterError,
                       conn |-> 0, prev |-> lastJoin[ch.guild], opened |-> FALSE]
            /\ UNCHANGED <<conns, joins>>
       ELSE /\ conns' = Append(conns, [guild |-> ch.guild, status |-> "signalling",
                                      channel |-> ch, sub |-> 0])
            /\ joins' = [joins EXCEPT ![j] =
                   [pc |-> "wait", guild |-> ch.guild, conn |-> Len(conns) + 1,
                    prev |-> lastJoin[ch.guild]]]
            /\ UNCHANGED ret
    /\ UNCHANGED <<connections, nPlayers, players, lastJoin>>

\* entersState resolves: the player is created, an error listener is put on
\* it and the session is registered
JoinReady(j) ==
    /\ UNCHANGED <<schedVars, guildVars>>
    /\ joins[j].pc = "wait"
    /\ conns' = [conns EXCEPT ![joins[j].conn].status = "ready"]
    /\ nPlayers' = nPlayers + 1
    /\ players' = Append(players, [playing |-> <<>>, listeners |-> 1])
    /\ connections' = [connections EXCEPT ![joins[j].guild] =
           [connection |-> joins[j].conn, player |-> nPlayers + 1]]
    /\ lastJoin' = [lastJoin EXCEPT ![joins[j].guild] = joins[j].conn]
    /\ ret' = [op |-> "join", guild |-> joins[j].guild, result |-> "ok",
               conn |-> joins[j].conn, prev |-> joins[j].prev, opened |-> TRUE]
    /\ joins' = [joins EXCEPT ![j] = IdleJoin]

\* entersState rejects (timeout, failed handshake): connection.destroy() is
\* tried, its own error is logged, and the join throws.  A destroy that
\* throws may or may not have destroyed the connection.
JoinFail(j, destroyThrows, gone) ==
    /\ UNCHANGED <<schedVars, guildVars>>
    /\ joins[j].pc = "wait"
    /\ ~destroyThrows => gone
    /\ conns' = [conns EXCEPT ![joins[j].conn].status =
                     IF gone THEN "destroyed" ELSE @]
    /\ ret' = [op |-> "join", guild |-> joins[j].guild, result |-> "error",
               error |-> HandshakeError, threw |-> destroyThrows,
               conn |-> 0, prev |-> joins[j].prev, opened |-> TRUE]
    /\ joins' = [joins EXCEPT ![j] = IdleJoin]
    /\ UNCHANGED <<connections, nPlayers, players, lastJoin>>

\* player.stop() on each player of ps; a stop that throws leaves its player
\* as it is
Stopped(ps, threw) ==
    [p \in 1..Len(players) |->
        IF p \in ps \ threw THEN [players[p] EXCEPT !.playing = <<>>]
        ELSE players[p]]

\* a leave of guild g ends the succession of joins that await for g
ForgetPrev(gs) ==
    [j \in Joiners |->
        IF joins[j].guild \in gs THEN [joins[j] EXCEPT !.prev = 0] ELSE joins[j]]

\* leaveVoiceInGuild whose registry removal is skipped when destroy throws
LeaveVoiceInGuildNoFinally(g, stopThrows, destroyThrows, gone) ==
    /\ UNCHANGED <<schedVars, guildVars>>
    /\ ~destroyThrows => gone
    /\ LET state == connections[g]
       IN  IF state = NoSession
           THEN /\ ret' = [op |-> "leave", guild |-> g, existed |-> FALSE,
                           result |-> FALSE, threw |-> FALSE]
                /\ UNCHANGED <<connections, conns, players>>
           ELSE /\ players' = Stopped({state.player}, IF stopThrows THEN {state.player} ELSE {})
                /\ conns' = [conns EXCEPT ![state.connection].status =
                                 IF gone THEN "destroyed" ELSE @]
                /\ connections' = IF destroyThrows THEN connections
                                  ELSE [connections EXCEPT ![g] = NoSession]
                /\ ret' = [op |-> "leave", guild |-> g, existed |-> TRUE,
                           result |-> TRUE,
                           threw |-> (stopThrows \/ destroyThrows)]
    /\ lastJoin' = [lastJoin EXCEPT ![g] = 0]
    /\ joins' = ForgetPrev({g})
    /\ UNCHANGED nPlayers

\* leaveVoiceInGuild(guildId): player.stop() and connection.destroy() are
\* each tried and their errors logged; finally connections.delete(guildId)
LeaveVoiceInGuild(g, stopThrows, destroyThrows, gone) ==
    /\ UNCHANGED <<schedVars, guildVars>>
    /\ ~destroyThrows => gone
    /\ LET state == connections[g]
       IN  IF state = NoSession
           THEN /\ ret' = [op |-> "leave", guild |-> g, existed |-> FALSE,
                           result |-> FALSE, threw |-> FALSE]
                /\ UNCHANGED <<connections, conns, players>>
           ELSE /\ players' = Stopped({state.player}, IF stopThrows THEN {state.player} ELSE {})
                /\ conns' = [conns EXCEPT ![state.connection].status =
                                 IF gone THEN "destroyed" ELSE @]
                /\ connections' = [connections EXCEPT ![g] = NoSession]
                /\ ret' = [op |-> "leave", guild |-> g, existed |-> TRUE,
                           result |-> TRUE,
                           threw |-> (stopThrows \/ destroyThrows)]
    /\ lastJoin' = [lastJoin EXCEPT ![g] = 0]
    /\ joins' = ForgetPrev({g})
    /\ UNCHANGED nPlayers

\* the connections and the players the registry holds
Registered == {connections[g].connection : g \in Guilds} \ {0}

RegisteredPlayers == {connections[g].player : g \in Guilds} \ {0}

\* a destroyAll whose loop is left at the first error, before the clear
DestroyAllAborts(stopThrew, kept) ==
    /\ UNCHANGED <<schedVars, guildVars>>
    /\ stopThrew \subseteq RegisteredPlayers
    /\ kept \subseteq Registered
    /\ IF stopThrew = {} /\ kept = {}
       THEN /\ players' = Stopped(RegisteredPlayers, {})
            /\ conns' = [c \in 1..Len(conns) |->
                   IF c \in Registered
                   THEN [conns[c] EXCEPT !.status = "destroyed"]
                   ELSE conns[c]]
            /\ connections' = [g \in Guilds |-> NoSession]
       ELSE UNCHANGED <<players, conns, connections>>
    /\ lastJoin' = [g \in Guilds |-> 0]
    /\ joins' = ForgetPrev(Guilds)
    /\ ret' = [op |-> "destroyAll", registered |-> Registered,
               stopThrew |-> stopThrew, kept |-> kept]
    /\ UNCHANGED nPlayers

\* destroyAllVoiceConnections(): every registered session's player is
\* stopped and its connection destroyed, each error logged; then
\* connections.clear().  `stopThrew` are the players whose stop threw, `kept`
\* the connections whose destroy threw without destroying them.
DestroyAllVoiceConnections(stopThrew, kept) ==
    /\ UNCHANGED <<schedVars, guildVars>>
    /\ stopThrew \subseteq RegisteredPlayers
    /\ kept \subseteq Registered
    /\ players' = Stopped(RegisteredPlayers, stopThrew)
    /\ conns' = [c \in 1..Len(conns) |->
           IF c \in Registered /\ c \notin kept
           THEN [conns[c] EXCEPT !.status = "destroyed"]
           ELSE conns[c]]
    /\ connections' = [g \in Guilds |-> NoSession]
    /\ lastJoin' = [g \in Guilds |-> 0]
    /\ joins' = ForgetPrev(Guilds)
    /\ ret' = [op |-> "destroyAll", registered |-> Registered,
               stopThrew |-> stopThrew, kept |-> kept]
    /\ UNCHANGED nPlayers

DestroysAll ==
    \E stopThrew \in SUBSET (1..nPlayers), kept \in SUBSET (1..Len(conns)) :
        DestroyAllVoiceConnections(stopThrew, kept)

\* file paths passed to play: a.opus, a.OGG, a.oga, a.mp3, a.ogg.mp3
Paths ==
    {<<97, 46, 111, 112, 117, 115>>, <<97, 46, 79, 71, 71>>,
     <<97, 46, 111, 103, 97>>, <<97, 46, 109, 112, 51>>,
     <<97, 46, 111, 103, 103, 46, 109, 112, 51>>}

\* path.extname of a path with no directory part: from the last '.' on, ''
\* when there is no '.' or the only one is the first character
extname(path) ==
    LET dots == {i \in 1..Len(path) : path[i] = 46}
    IN  IF dots = {} THEN <<>>
        ELSE LET d == CHOOSE i \in dots : \A k \in dots : k <= i
             IN  IF d = 1 THEN <<>> ELSE SubSeq(path, d, Len(path))

\* String.prototype.toLowerCase on ASCII
toLowerCase(str) ==
    [i \in 1..Len(str) |->
        IF str[i] >= 65 /\ str[i] <= 90 THEN str[i] + 32 ELSE str[i]]

\* a play that takes .mp3 too
SupportedExtsAndMp3 ==
    {<<46, 111, 112, 117, 115>>, <<46, 111, 103, 103>>, <<46, 111, 103, 97>>,
     <<46, 109, 112, 51>>}

\* '.opus', '.ogg', '.oga'
SupportedExts ==
    {<<46, 111, 112, 117, 115>>, <<46, 111, 103, 103>>, <<46, 111, 103, 97>>}

NoConnectionError == "No active voice connection for guild"

FormatError == "Format audio non supporte: utilisez uniquement des fichiers .opus/.ogg"

\* a play that does not look for the session
NoConnectionNever(state) == FALSE

\* !state?.connection
NoConnection(state) == state.connection = 0

\* playFileInGuild(guildId, filePath)
PlayFileInGuild(g, path) ==
    /\ UNCHANGED <<schedVars, guildVars>>
    /\ LET state == connections[g]
           fresh == state.player = 0
           player == IF fresh THEN nPlayers + 1 ELSE state.player
       IN  IF NoConnection(state)
           THEN /\ ret' = [op |-> "play", guild |-> g, path |-> path,
                           result |-> "error", error |-> NoConnectionError,
                           player |-> 0]
                /\ UNCHANGED <<connections, conns, nPlayers, players>>
           ELSE IF toLowerCase(extname(path)) \notin SupportedExts
           THEN /\ ret' = [op |-> "play", guild |-> g, path |-> path,
                           result |-> "error", error |-> FormatError,
                           player |-> 0]
                /\ UNCHANGED <<connections, conns, nPlayers, players>>
           ELSE /\ fresh \/ players[player].listeners < 1 + 2 * MaxPlays
                /\ nPlayers' = IF fresh THEN nPlayers + 1 ELSE nPlayers
                /\ players' =
                       IF fresh
                       THEN Append(players, [playing |-> path, listeners |-> 2])
                       ELSE [players EXCEPT ![player].playing = path,
                                            ![player].listeners = @ + 2]
                /\ conns' = IF state.connection = 0 THEN conns
                            ELSE [conns EXCEPT ![state.connection].sub = player]
                /\ connections' = [connections EXCEPT ![g].player = player]
                /\ ret' = [op |-> "play", guild |-> g, path |-> path,
                           result |-> "ok", error |-> "", player |-> player]
    /\ UNCHANGED <<joins, lastJoin>>

VoiceNext ==
    \/ \E j \in Joiners, ch \in Channels : JoinBegin(j, ch)
    \/ \E j \in Joiners : JoinReady(j)
    \/ \E j \in Joiners, thr \in BOOLEAN, gone \in BOOLEAN : JoinFail(j, thr, gone)
    \/ \E g \in Guilds, st \in BOOLEAN, thr \in BOOLEAN, gone \in BOOLEAN :
           LeaveVoiceInGuild(g, st, thr, gone)
    \/ DestroysAll

\* the session manager with one join at a time, on channels that pass the
\* checks, and play
PlayNext ==
    \/ \E ch \in Channels : ~Rejected(ch) /\ ch.adapter /\ JoinBegin("j1", ch)
    \/ JoinReady("j1")
    \/ JoinFail("j1", FALSE, TRUE)
    \/ \E g \in Guilds : LeaveVoiceInGuild(g, FALSE, FALSE, TRUE)
    \/ DestroyAllVoiceConnections({}, {})
    \/ \E g \in Guilds, path \in Paths : PlayFileInGuild(g, path)

(***************************************************************************)
(* Specifications: the two subsystems share nothing but the process.       *)
(***************************************************************************)
(***************************************************************************)
(* Guild configuration: guild-config.ts                                    *)
(***************************************************************************)
GuildCallers == {"k1", "k2"}
Languages == {"en", "fr"}
NoConfig == "none"
\* new Map()
EmptyCache == [g \in Guilds |-> NoConfig]

\* the file does not exist: fs.readFile rejects with ENOENT
Missing == [exists |-> FALSE, configs |-> EmptyCache]

IdleGuildCall ==
    [pc |-> "idle", op |-> "", guild |-> "", language |-> "", data |-> Missing,
     overlap |-> FALSE]

\* a setGuildLanguage for the guild is in flight
Setting(g) ==
    \E c \in GuildCallers :
        gcalls[c].pc # "idle" /\ gcalls[c].op = "set" /\ gcalls[c].guild = g

GetsInFlight ==
    Cardinality({c \in GuildCallers : gcalls[c].pc # "idle" /\ gcalls[c].op = "get"})

GuildInit ==
    /\ configCache = EmptyCache
    /\ cacheLoaded = FALSE
    /\ configFile = Missing
    /\ gcalls = [c \in GuildCallers |-> IdleGuildCall]
    /\ lastSet = [g \in Guilds |-> NoConfig]
    /\ langRet = [n |-> 0, guild |-> "", language |-> "", overlap |-> FALSE]

\* config?.language ?? 'en'
LanguageOf(cache, g) == IF cache[g] = NoConfig THEN "en" ELSE cache[g]

\* loadConfigs after its readFile: the cache is replaced by a new map built
\* from the file's array, an empty one when the file does not exist
LoadedCache(cache, data) == IF ~data.exists THEN EmptyCache ELSE data.configs

\* what follows `await loadConfigs()` in the two operations: getGuildLanguage
\* returns, setGuildLanguage puts its config into the cache and calls
\* saveConfigs
AfterLoad(c, call, cache, others) ==
    IF call.op = "get"
    THEN /\ configCache' = cache
         /\ gcalls' = [others EXCEPT ![c] = IdleGuildCall]
         /\ langRet' = [n |-> langRet.n + 1, guild |-> call.guild,
                        language |-> LanguageOf(cache, call.guild),
                        overlap |-> call.overlap]
    ELSE /\ configCache' = [cache EXCEPT ![call.guild] = call.language]
         /\ gcalls' = [others EXCEPT ![c] = [call EXCEPT !.pc = "save"]]
         /\ UNCHANGED langRet

\* the calls in flight when op is called for g; a getGuildLanguage that runs
\* beside a setGuildLanguage for its guild is noted (overlap)
Beside(op, g) ==
    [c \in GuildCallers |->
        IF op = "set" /\ gcalls[c].pc # "idle" /\ gcalls[c].op = "get"
                      /\ gcalls[c].guild = g
        THEN [gcalls[c] EXCEPT !.overlap = TRUE]
        ELSE gcalls[c]]

\* getGuildLanguage / setGuildLanguage is called.  With the cache loaded
\* loadConfigs returns at once, otherwise it starts to read the file.  Two
\* calls of setGuildLanguage for one guild are not made at the same time.
GuildCall(c, op, g, language) ==
    /\ UNCHANGED <<schedVars, voiceVars>>
    /\ gcalls[c].pc = "idle"
    /\ op = "set" => ~Setting(g)
    /\ op = "get" => langRet.n + GetsInFlight < MaxGets
    /\ LET call == [pc |-> "read", op |-> op, guild |-> g,
                    language |-> IF op = "set" THEN language ELSE "",
                    data |-> Missing, overlap |-> op = "get" /\ Setting(g)]
       IN  IF cacheLoaded
           THEN AfterLoad(c, call, configCache, Beside(op, g))
           ELSE /\ gcalls' = [Beside(op, g) EXCEPT ![c] = call]
                /\ UNCHANGED <<configCache, langRet>>
    /\ UNCHANGED <<cacheLoaded, configFile, lastSet>>

\* fs.readFile of loadConfigs reads the file
GuildReadFile(c) ==
    /\ UNCHANGED <<schedVars, voiceVars>>
    /\ gcalls[c].pc = "read"
    /\ gcalls' = [gcalls EXCEPT ![c] = [@ EXCEPT !.pc = "loaded", !.data = configFile]]
    /\ UNCHANGED <<configCache, cacheLoaded, configFile, lastSet, langRet>>

\* loadConfigs resumes after its readFile, and the operation goes on
GuildLoaded(c) ==
    /\ UNCHANGED <<schedVars, voiceVars>>
    /\ gcalls[c].pc = "loaded"
    /\ cacheLoaded' = TRUE
    /\ AfterLoad(c, [gcalls[c] EXCEPT !.data = Missing],
                 LoadedCache(configCache, gcalls[c].data), gcalls)
    /\ UNCHANGED <<configFile, lastSet>>

\* saveConfigs resumes after its mkdir and takes the cache's values
GuildSaveBegin(c) ==
    /\ UNCHANGED <<schedVars, voiceVars>>
    /\ gcalls[c].pc = "save"
    /\ gcalls' = [gcalls EXCEPT ![c] = [@ EXCEPT !.pc = "write",
                        !.data = [exists |-> TRUE, configs |-> configCache]]]
    /\ UNCHANGED <<configCache, cacheLoaded, configFile, lastSet, langRet>>

\* fs.writeFile of saveConfigs completes, and with it setGuildLanguage
GuildSaveWrite(c) ==
    /\ UNCHANGED <<schedVars, voiceVars>>
    /\ gcalls[c].pc = "write"
    /\ configFile' = gcalls[c].data
    /\ lastSet' = [lastSet EXCEPT ![gcalls[c].guild] = gcalls[c].language]
    /\ gcalls' = [gcalls EXCEPT ![c] = IdleGuildCall]
    /\ UNCHANGED <<configCache, cacheLoaded, langRet>>

GuildNext ==
    \/ \E c \in GuildCallers, op \in {"get", "set"}, g \in Guilds,
          language \in Languages : GuildCall(c, op, g, language)
    \/ \E c \in GuildCallers : GuildReadFile(c)
    \/ \E c \in GuildCallers : GuildLoaded(c)
    \/ \E c \in GuildCallers : GuildSaveBegin(c)
    \/ \E c \in GuildCallers : GuildSaveWrite(c)

Init == SchedInit /\ VoiceInit /\ GuildInit

Next ==
    \/ SchedNext \/ StoreNext \/ VoiceNext \/ PlayNext \/ FaultNext \/ LiveNext
    \/ GuildNext

Spec == Init /\ [][Next]_vars

SpecSched == Init /\ [][SchedNext]_vars

SpecVoice == Init /\ [][VoiceNext]_vars

SpecStore == Init /\ [][StoreNext]_vars

SpecPlay == Init /\ [][PlayNext]_vars

SpecFault == Init /\ [][FaultNext]_vars

SpecGuild == Init /\ [][GuildNext]_vars

SpecLive == Init /\ [][LiveNext]_vars /\ LiveFairness

(***************************************************************************)
(* Properties of the store and the worker                                  *)
(***************************************************************************)
NonIdleTicks == {t \in TickSlots : ticks[t].pc # "idle"}

TickStart(t) == ParseISO(ticks[t].nowIso).ms

\* C1: a record's persisted status changes only from pending (to sent or to
\* failed); a record that is sent or failed never changes status again.
C1_StatusOnlyLeavesPending ==
    [][\A id \in Ids(file) \cap Ids(file') :
          Rec(file', id).status # Rec(file, id).status
              => /\ Rec(file, id).status = "pending"
                 /\ Rec(file', id).status \in {"sent", "failed"}]_schedVars

C3_RetriesNeverDecrease ==
    [][\A id \in Ids(file) \cap Ids(file') :
          Rec(file', id).retries >= Rec(file, id).retries]_schedVars

\* C13: at most one interval timer is set, and it is the one intervalRef
\* holds, whatever start and stop calls were made; a start while a timer is
\* set and a stop while none is set change nothing, a start while none is set
\* sets exactly one, and a stop clears the one that is set.
C13_AtMostOneTimer ==
    [][/\ Cardinality(timers') <= 1
       /\ \A tm \in timers' : tm.id = intervalRef'
       /\ (intervalRef' = 0) <=> (timers' = {})
       /\ nTimers' # nTimers
              => intervalRef = 0 /\ timers = {} /\ Cardinality(timers') = 1
       /\ (intervalRef # 0 /\ intervalRef' # intervalRef)
              => intervalRef' = 0 /\ timers' = {}]_schedVars

\* C13 witness: the worker was started, stopped and started again, and one
\* timer is set.
C13_Witness ==
    nTimers = 2 /\ intervalRef = 2 /\ Cardinality(timers) = 1

\* C14: a tick begins only while a timer is set, so none begins between a
\* stop and the next start; the step of a stop leaves every tick in flight
\* as it is, and a tick in flight can take its next step (the end of its
\* scan, the settling of its send, the write of its mark) with no timer set.
TickBegins(t) == ticks[t].pc = "idle" /\ ticks'[t].pc = "scan"

C14_StopSuppressesOnlyFutureTicks ==
    [][/\ \A t \in TickSlots :
              TickBegins(t) => intervalRef # 0 /\ (\E tm \in timers : tm.id = intervalRef)
       /\ (intervalRef # 0 /\ intervalRef' = 0) => ticks' = ticks
       /\ \A t \in TickSlots :
              /\ ticks[t].pc = "scan" => ENABLED TickScan(t)
              /\ ticks[t].pc = "send" =>
                     \A ok \in BOOLEAN, e \in SendErrors : ENABLED TickSendDone(t, ok, e)
              /\ ticks[t].pc = "write" => ENABLED TickWrite(t)]_schedVars

\* C14 witness: the worker is stopped, no timer is set, and a tick that began
\* before the stop has delivered its first message, written its mark and is
\* delivering its second.
C14_Witness ==
    /\ intervalRef = 0
    /\ timers = {}
    /\ \E t \in TickSlots :
           /\ ticks[t].pc = "send"
           /\ ticks[t].k = 2
           /\ Rec(file, ticks[t].pending[1].id).status # "pending"

\* C4: a tick that ends with no other writer of the file in between has
\* attempted every message it selected, and has left each one failed with one
\* more retry when its delivery failed and sent when its delivery succeeded.
C4_FailureIsolated ==
    [][\A t \in TickSlots :
          (InFlight(t) /\ ticks'[t].pc = "idle" /\ ~ticks[t].disturbed) =>
              LET tk == ticks[t]
              IN  /\ Len(tk.outcomes) = Len(tk.pending)
                  /\ \A j \in 1..Len(tk.pending) :
                        LET id == tk.pending[j].id
                        IN  /\ id \in Ids(file')
                            /\ IF tk.outcomes[j] = "fail"
                               THEN /\ Rec(file', id).status = "failed"
                                    /\ Rec(file', id).retries = tk.pending[j].retries + 1
                               ELSE Rec(file', id).status = "sent"]_schedVars

\* C4 witness: a tick of two due messages, undisturbed, whose first delivery
\* failed (the record is failed with retries 1) and whose second succeeded
\* (its markSent is being written).
C4_Witness ==
    \E t \in TickSlots :
        /\ ticks[t].pc = "write"
        /\ ~ticks[t].disturbed
        /\ Len(ticks[t].pending) = 2
        /\ ticks[t].outcomes = <<"fail", "ok">>
        /\ Rec(file, ticks[t].pending[1].id).status = "failed"
        /\ Rec(file, ticks[t].pending[1].id).retries = 1
        /\ Rec(ticks[t].items, ticks[t].pending[2].id).status = "sent"

\* C5 as claimed: no tick begins while another tick is still running.
C5_TicksNeverOverlap == Cardinality(NonIdleTicks) <= 1

\* C5 amended: two ticks run at the same time only when the earlier one has
\* been running for at least the timer's interval.
C5_OverlapOnlyAfterOverrun ==
    \A t1, t2 \in NonIdleTicks :
        t1 # t2 =>
            \/ TickStart(t1) + CHECK_INTERVAL_MS <= TickStart(t2)
            \/ TickStart(t2) + CHECK_INTERVAL_MS <= TickStart(t1)

\* C5 witness: a tick begins its scan while an earlier tick is delivering.
C5_Witness ==
    \E t1, t2 \in TickSlots : ticks[t1].pc = "send" /\ ticks[t2].pc = "scan"

\* C6: a tick invokes send only for a record whose sendAt is at or before the
\* tick's current time.
C6_NeverSentBeforeSendAt ==
    \A t \in TickSlots :
        ticks[t].pc = "send" =>
            InstantLE(ParseISO(ticks[t].pending[ticks[t].k].sendAt),
                      ParseISO(ticks[t].nowIso))

(***************************************************************************)
(* Properties of the store with its callers                                *)
(***************************************************************************)
\* caller c's operation writes the file and returns
Writes(c) == calls[c].pc = "write" /\ calls'[c].pc = "idle"

\* caller c's operation begins: its readAll returns
Begins(c) == calls[c].pc = "idle" /\ calls'[c].pc = "write"

CallsIdle == \A c \in Callers : calls[c].pc = "idle"

\* C15: the write of an operation replaces the file by what the operation
\* read, with its own change: every record another operation wrote since
\* that read is absent from all() afterwards.
C15_LaterWriteDiscards ==
    [][\A c \in Callers :
          Writes(c) =>
              /\ getAll'.items = calls[c].items
              /\ \A id \in Ids(getAll.items) \ Ids(calls[c].base) :
                     id \notin Ids(getAll'.items)]_schedVars

\* C15 witness: two schedule calls both read the empty file; the first has
\* written and returned its record, which all() holds, and the second is
\* about to write what it read.
C15_Witness ==
    /\ fileKind = "array"
    /\ calls["c1"].pc = "idle"
    /\ calls["c2"].pc = "write"
    /\ calls["c2"].op = "schedule"
    /\ calls["c2"].base = <<>>
    /\ Ids(getAll.items) = {1}
    /\ extMarks = 0

\* C16: getPendingMessages(asOf) returns exactly the records that are pending
\* and whose sendAt is an instant at or before asOf, in the order of the file.
ExpectedPending(items, asOf) ==
    SelectSeq(items, LAMBDA m : m.status = "pending"
                                  /\ InstantLE(ParseISO(m.sendAt), asOf))

C16_PendingExact ==
    queryRet.op = "pending" =>
        queryRet.result = ExpectedPending(getAll.items, queryRet.asOf)

\* C17: a schedule call that writes with the file as it read it leaves all()
\* as the records it held before, unchanged and in order, followed by one
\* record with the targetUserId, content and sendAt passed in, status pending,
\* retries 0 and lastError null.
C17_ScheduleRoundTrip ==
    [][\A c \in Callers :
          (Writes(c) /\ calls[c].op = "schedule" /\ getAll.items = calls[c].base)
              => LET all == getAll'.items
                 IN  /\ Len(all) = Len(getAll.items) + 1
                     /\ SubSeq(all, 1, Len(all) - 1) = getAll.items
                     /\ all[Len(all)] =
                            [id |-> calls[c].id,
                             targetUserId |-> calls[c].target,
                             content |-> calls[c].content,
                             sendAt |-> calls[c].sendAt,
                             status |-> "pending", retries |-> 0,
                             lastError |-> NoError]]_schedVars

\* C17 witness: a record for u2 at T + 1 s was scheduled after a record that
\* had failed, and all() holds both.
C17_Witness ==
    /\ CallsIdle
    /\ fileKind = "array"
    /\ Len(file) = 2
    /\ file[1].status = "failed"
    /\ file[2] = [id |-> 2, targetUserId |-> "u2", content |-> "hello",
                  sendAt |-> toISOString(ClockInstant(1000)),
                  status |-> "pending", retries |-> 0, lastError |-> NoError]

\* C18: a markFailed(id, msg) that writes with the file as it read it leaves
\* the record failed, with one more retry and lastError msg (null when msg is
\* omitted), and every other field and record as it was.
C18_MarkFailedBookkeeping ==
    [][\A c \in Callers :
          (Writes(c) /\ calls[c].op = "markFailed" /\ getAll.items = calls[c].base)
              => LET idx == CHOOSE i \in 1..Len(getAll.items) :
                                getAll.items[i].id = calls[c].id
                     before == getAll.items[idx]
                 IN  getAll'.items =
                         [getAll.items EXCEPT ![idx] =
                             [before EXCEPT
                                 !.status = "failed",
                                 !.retries = before.retries + 1,
                                 !.lastError = IF calls[c].err = Omitted
                                               THEN NoError
                                               ELSE calls[c].err]]]_schedVars

\* C18 witness: a record has failed twice, the last time with "e2".
C18_Witness ==
    /\ CallsIdle
    /\ fileKind = "array"
    /\ \E i \in 1..Len(file) :
           /\ file[i].status = "failed"
           /\ file[i].retries = 2
           /\ file[i].lastError = "e2"

\* C19: a markSent or markFailed goes on to write only for an id that all()
\* holds; for any other id it returns at once and the file is as it was.
C19_UnknownIdNoOp ==
    [][/\ \A c \in Callers :
              (Begins(c) /\ calls'[c].op \in {"markSent", "markFailed"})
                  => calls'[c].id \in Ids(getAll.items)
       /\ (extMarks' # extMarks /\ calls' = calls)
              => file' = file /\ fileKind' = fileKind]_schedVars

\* C19 witness: one record was ever scheduled, every call of markSent and
\* markFailed the bound allows was made, and the record is still pending: the
\* calls were for ids the store did not hold.
C19_Witness ==
    /\ CallsIdle
    /\ fileKind = "array"
    /\ nextId = 2
    /\ Len(file) = 1
    /\ file[1].status = "pending"
    /\ file[1].retries = 0
    /\ extMarks = MaxStoreMarks

\* a query of a file that is not a JSON array returns [] and does not throw
CorruptReadsEmpty ==
    (queryRet'.op # "none" /\ fileKind' # "array")
        => ~queryRet'.threw /\ queryRet'.result = <<>>

\* a write leaves a JSON array: the items of the operation that writes
WriteRepairs ==
    \A c \in Callers :
        Writes(c) => fileKind' = "array" /\ file' = calls[c].items

\* C20 as claimed: reads of a file that is not a JSON array return [], and
\* the next mutating operation (schedule, markSent or markFailed) called on
\* such a file goes on to write a collection built from [].
C20_NextMutationRepairs ==
    [][/\ CorruptReadsEmpty
       /\ WriteRepairs
       /\ (fileKind # "array" /\ (nextId' # nextId \/ extMarks' # extMarks))
              => \E c \in Callers : Begins(c) /\ calls'[c].base = <<>>]_schedVars

\* C20 amended: reads of a file that is not a JSON array return [], the next
\* schedule called on such a file goes on to write its record alone, and a
\* markSent or markFailed called on it finds no record, returns and leaves
\* the file as it is.
C20_NextScheduleRepairs ==
    [][/\ CorruptReadsEmpty
       /\ WriteRepairs
       /\ (fileKind # "array" /\ nextId' # nextId)
              => \E c \in Callers :
                     /\ Begins(c)
                     /\ calls'[c].base = <<>>
                     /\ Len(calls'[c].items) = 1
                     /\ calls'[c].items[1].id = nextId
       /\ (fileKind # "array" /\ extMarks' # extMarks)
              => calls' = calls /\ file' = file /\ fileKind' = fileKind]_schedVars

\* C20 witness: the file held a record and is garbage now; all() returned
\* [], and a schedule called since is about to write its record alone.
C20_Witness ==
    /\ fileKind = "garbage"
    /\ file # <<>>
    /\ queryRet.op = "all"
    /\ queryRet.result = <<>>
    /\ \E c \in Callers :
           /\ calls[c].pc = "write"
           /\ calls[c].op = "schedule"
           /\ calls[c].base = <<>>
           /\ Len(calls[c].items) = 1

(***************************************************************************)
(* Properties of the voice-session manager                                 *)
(***************************************************************************)
LiveConns(g) ==
    {c \in 1..Len(conns) : conns[c].guild = g /\ conns[c].status # "destroyed"}

\* C7: a join that follows a successful join for the same guild, with no
\* leave in between, returns the handle the first one returned and opens no
\* transport connection.
C7_SecondJoinReuses ==
    (ret.op = "join" /\ ret.result = "ok" /\ ret.prev # 0) =>
        (ret.conn = ret.prev /\ ~ret.opened)

\* C8: for every guild at most one transport connection opened by join is
\* live, and a live connection that has completed its handshake is the one
\* the guild's registered session holds.
C8_OneLiveConnectionPerGuild ==
    \A g \in Guilds :
        /\ Cardinality(LiveConns(g)) <= 1
        /\ \A c \in LiveConns(g) :
               conns[c].status = "ready" => connections[g].connection = c

\* C9: leave(guildId) returns true exactly when a session existed, and
\* leaves no registry entry for the guild and isActive false, also when
\* stop or destroy threw.
C9_LeaveCleansUp ==
    ret.op = "leave" =>
        /\ ret.result = ret.existed
        /\ connections[ret.guild] = NoSession
        /\ ~isConnectedInGuild(ret.guild)

\* C9 witness: a leave of a registered session during which stop or destroy
\* threw.
C9_Witness ==
    ret.op = "leave" /\ ret.existed /\ ret.threw

\* C11: a join whose channel fails a precondition (not voice-capable, bot
\* membership unresolved, Connect or Speak missing) ends with that check's
\* error, opens no transport connection and leaves the registry as it was; no
\* connection is ever opened for such a channel.  (The step of a rejected join
\* is the one that sets ret to its error.)
PassesChecks(ch) == ch.voice /\ ch.member /\ ch.connect /\ ch.speak

C11_RejectedJoinChangesNothing ==
    [][/\ \A c \in 1..Len(conns') : PassesChecks(conns'[c].channel)
       /\ (ret' # ret /\ ret'.op = "join" /\ ret'.result = "error"
               /\ ret'.error \in PreconditionErrors)
           => /\ ~ret'.opened
              /\ conns' = conns
              /\ connections' = connections
              /\ joins' = joins]_voiceVars

\* C11 witness: a join was rejected for missing permissions in a guild that
\* has a registered session and a connection.
C11_Witness ==
    /\ ret.op = "join"
    /\ ret.result = "error"
    /\ ret.error = "Missing Connect/Speak permissions for this channel"
    /\ connections[ret.guild] # NoSession
    /\ conns # <<>>

\* C12: a join whose handshake fails ends with an error, has destroyed the
\* connection it opened unless the destroy threw, and leaves the registry as
\* it was; a registry entry appears only at the step of a join that returns
\* its connection after the handshake succeeded, and disappears only at a step
\* of leave or destroyAll.
C12_OnlyReadyJoinRegisters ==
    [][/\ \A j \in Joiners :
              (joins[j].pc = "wait" /\ joins'[j].pc = "idle" /\ ret'.result = "error")
                  => /\ connections' = connections
                     /\ ret'.op = "join" /\ ret'.error = HandshakeError
                     /\ ~ret'.threw => conns'[joins[j].conn].status = "destroyed"
       /\ \A g \in Guilds :
              /\ (connections'[g] # connections[g] /\ connections'[g] # NoSession)
                     => /\ ret'.op = "join" /\ ret'.result = "ok" /\ ret'.opened
                        /\ ret'.guild = g
                        /\ connections'[g].connection = ret'.conn
                        /\ conns'[ret'.conn].status = "ready"
              /\ (connections[g] # NoSession /\ connections'[g] = NoSession)
                     => ret'.op \in {"leave", "destroyAll"}]_voiceVars

\* C12 witness: a join failed its handshake, the destroy of its connection
\* threw and left the connection undestroyed, and the guild has no session.
C12_Witness ==
    /\ ret.op = "join"
    /\ ret.result = "error"
    /\ ret.error = HandshakeError
    /\ ret.threw
    /\ connections[ret.guild] = NoSession
    /\ \E c \in 1..Len(conns) :
           conns[c].guild = ret.guild /\ conns[c].status = "signalling"

\* C21: a play on a guild that has a session fails with the format error
\* exactly when the file's extension, letter case aside, is none of .opus,
\* .ogg, .oga; the failing call leaves the players (what they play, their
\* listeners), the connections (their subscriptions) and the registry as
\* they were.
EndsWith(str, suffix) ==
    /\ Len(str) >= Len(suffix)
    /\ SubSeq(str, Len(str) - Len(suffix) + 1, Len(str)) = suffix

HasSupportedExt(path) ==
    \E e \in {<<46, 111, 112, 117, 115>>, <<46, 111, 103, 103>>,
               <<46, 111, 103, 97>>} :
        EndsWith(toLowerCase(path), e)

PlayReturns(g) == ret' # ret /\ ret'.op = "play" /\ ret'.guild = g

C22_PlayNeedsSession ==
    [][\A g \in Guilds :
          (PlayReturns(g) /\ connections[g] = NoSession)
              => /\ ret'.result = "error"
                 /\ ret'.error = NoConnectionError
                 /\ connections' = connections
                 /\ players' = players
                 /\ nPlayers' = nPlayers
                 /\ conns' = conns]_voiceVars

\* C22 witness: a play was refused on a guild whose session was left or
\* destroyed, while the other guild has a session.
C22_Witness ==
    /\ ret.op = "play"
    /\ ret.error = NoConnectionError
    /\ \E c \in 1..Len(conns) :
           conns[c].guild = ret.guild /\ conns[c].status = "destroyed"
    /\ \E g \in Guilds : connections[g] # NoSession

\* C23: while a guild stays registered (from a successful join to the next
\* leave or destroyAll) its session's player is the same handle, and every
\* successful play uses it.
C23_PlayerNeverChanges ==
    [][\A g \in Guilds :
          /\ (connections[g] # NoSession /\ connections'[g] # NoSession)
                 => connections'[g].player = connections[g].player
          /\ (PlayReturns(g) /\ ret'.result = "ok")
                 => ret'.player = connections[g].player]_voiceVars

\* C24: when destroyAll has returned the registry is empty, and every
\* connection that was registered is destroyed except those whose own
\* destroy threw, whatever stop or destroy threw for another session.
C24_DestroyAllReachesEverySession ==
    ret.op = "destroyAll" =>
        /\ \A g \in Guilds : connections[g] = NoSession
        /\ \A c \in ret.registered \ ret.kept : conns[c].status = "destroyed"

\* C24 witness: destroyAll ran over two sessions; a stop threw, the destroy
\* of one connection threw, and the other connection is destroyed.
C24_Witness ==
    /\ ret.op = "destroyAll"
    /\ Cardinality(ret.registered) = 2
    /\ ret.stopThrew # {}
    /\ Cardinality(ret.kept) = 1
    /\ \E c \in ret.registered : conns[c].status = "destroyed"

\* C10: isActive(guildId) is true exactly when the registry holds a session
\* for the guild whose connection is not destroyed.
C10_IsActiveIffLiveSession ==
    \A g \in Guilds :
        isConnectedInGuild(g) <=>
            /\ connections[g] # NoSession
            /\ conns[connections[g].connection].status # "destroyed"


(***************************************************************************)
(* C26: within one tick the due messages are delivered one at a time, in   *)
(* the order of the list the due query returned: the delivery of message   *)
(* k+1 starts only in the step that completes message k, which is the      *)
(* write of its markSent / markFailed, or the return of that call when the *)
(* file no longer holds the id; the first delivery starts from the scan.   *)
(***************************************************************************)
DeliveryStarts(t) ==
    /\ ticks'[t].pc = "send"
    /\ ticks[t].pc # "send" \/ ticks'[t].k # ticks[t].k

C26_OneAtATimeInOrder ==
    [][\A t \in TickSlots : DeliveryStarts(t) =>
          \/ /\ ticks[t].pc = "scan"
             /\ ticks'[t].k = 1
             /\ ticks'[t].outcomes = <<>>
          \/ /\ ticks'[t].k = ticks[t].k + 1
             /\ ticks'[t].pending = ticks[t].pending
             /\ Len(ticks'[t].outcomes) = ticks[t].k
             /\ \/ ticks[t].pc = "write" /\ file' = ticks[t].items
                \/ /\ ticks[t].pc = "send"
                   /\ ticks[t].pending[ticks[t].k].id \notin Ids(readAll.items)]_vars

\* a second delivery is under way and the first message has been marked
C26_Witness ==
    \E t \in TickSlots :
        /\ ticks[t].pc = "send"
        /\ ticks[t].k = 2
        /\ Len(ticks[t].outcomes) = 1
        /\ ticks[t].pending[1].id \in Ids(file)
        /\ Rec(file, ticks[t].pending[1].id).status # "pending"
        /\ ticks[t].pending[1].id < ticks[t].pending[2].id

(***************************************************************************)
(* C27: the worker invokes the delivery of one message at most once.  The  *)
(* deliveries counted are those the ticks in flight have invoked so far    *)
(* (every settled delivery of a tick and the one under way), a lower bound *)
(* of the deliveries of the message's lifetime.                            *)
(***************************************************************************)
Invoked(t) ==
    IF ~InFlight(t) THEN 0
    ELSE IF ticks[t].pc = "send" THEN ticks[t].k
    ELSE Len(ticks[t].outcomes)

SendsInvoked(id) ==
    Cardinality({p \in TickSlots \X (1..MaxMsgs) :
                    /\ p[2] <= Invoked(p[1])
                    /\ ticks[p[1]].pending[p[2]].id = id})

C27_SentAtMostOnce == \A id \in MsgIds : SendsInvoked(id) <= 1

(***************************************************************************)
(* C25: an error raised inside a tick (by the due query, by markSent or by *)
(* markFailed) is caught inside that tick.  No tick is ever left with an   *)
(* error that escaped the callback; the step in which the callback's catch *)
(* takes an error ends that tick and touches neither the timer nor its     *)
(* handle, so a worker that is not stopped still holds its timer.          *)
(***************************************************************************)
TimerAlive == \E tm \in timers : tm.id = intervalRef

C25_TickErrorsCaught ==
    [][/\ \A t \in TickSlots : ticks'[t].pc # "unhandled"
       /\ loopErrors' > loopErrors =>
             /\ timers' = timers
             /\ intervalRef' = intervalRef
             /\ intervalRef # 0 => TimerAlive'
             /\ \E t \in TickSlots :
                   /\ ticks[t].pc # "idle"
                   /\ ticks'[t].pc = "idle"]_vars

\* after a tick ended in the callback's catch, the tick of the next minute
\* runs and delivers
C25_Witness ==
    /\ loopErrors >= 1
    /\ intervalRef # 0
    /\ \E t \in TickSlots :
          /\ ticks[t].pc = "send"
          /\ TickStart(t) = 2 * CHECK_INTERVAL_MS

(***************************************************************************)
(* C28: the status a tick writes for a record agrees with the outcome of   *)
(* that tick's delivery of it: sent after a send that succeeded, failed    *)
(* after a send that failed, also when markSent rejected in between.       *)
(***************************************************************************)
TickWrites(t) ==
    /\ ticks[t].pc \in {"write", "rewrite"}
    /\ ticks'[t].pc \notin {"write", "rewrite", "failing"}
    /\ file' = ticks[t].items
    /\ fileKind' = "array"

C28_StatusAgreesWithDelivery ==
    [][\A t \in TickSlots : TickWrites(t) =>
          LET tk == ticks[t]
              id == tk.pending[tk.k].id
          IN  Rec(file', id).status =
                  IF tk.outcomes[Len(tk.outcomes)] = "ok" THEN "sent" ELSE "failed"]_vars

(***************************************************************************)
(* C29: while the worker is started and store operations succeed, a record *)
(* that is pending with its sendAt in the past eventually becomes sent or  *)
(* failed.  The clock of the model stops at MaxTime intervals: a record    *)
(* that is still in the file when the clock has stopped is left aside, the *)
(* ticks that would deliver it lie beyond the last firing.                 *)
(***************************************************************************)
ClockStopped == now = MaxTime * CHECK_INTERVAL_MS

PendingAndDue(id) ==
    /\ intervalRef # 0
    /\ ~ClockStopped
    /\ id \in Ids(file)
    /\ Rec(file, id).status = "pending"
    /\ InstantLE(ParseISO(Rec(file, id).sendAt), ClockInstant(now))

Settled(id) == id \in Ids(file) /\ Rec(file, id).status \in {"sent", "failed"}

C29_DueEventuallySettled ==
    \A id \in MsgIds :
        PendingAndDue(id) ~> (Settled(id) \/ (ClockStopped /\ id \in Ids(file)))

(***************************************************************************)
(* C30: a getGuildLanguage(g) beside which no setGuildLanguage for g ran   *)
(* returns the language of the last setGuildLanguage for g that completed, *)
(* and 'en' when there was none, whatever calls for other guilds run       *)
(* beside it, the first load of the file included.                         *)
(***************************************************************************)
C30_GetReturnsLastSet ==
    [][(langRet'.n # langRet.n /\ ~langRet'.overlap) =>
          langRet'.language =
              IF lastSet[langRet'.guild] = NoConfig THEN "en"
              ELSE lastSet[langRet'.guild]]_vars

====
